---- MODULE Spec2Model ----
(***************************************************************************)
(* SPS30 SHDLC driver (src/src/lib.rs): the frame codec (send_frame,       *)
(* receive_frame, checksum, the Command table) and the device session      *)
(* Sps30 with its running flag and its six public operations.              *)
(*                                                                         *)
(* Bytes are the integers 0..255; a Vec<u8> is a sequence of bytes.        *)
(* A Result/Option/panic outcome is a record with a field kind.            *)
(***************************************************************************)
EXTENDS Integers, Sequences, FiniteSets, TLC

VARIABLES running, port, pc, op, polls, trace, dev, rx, res, probe

vars == <<running, port, pc, op, polls, trace, dev, rx, res, probe>>

\* ------------------------------------------------------------------ bytes

\* u8: the arithmetic of lib.rs is on 8-bit unsigned integers.
U8 == 256

Byte == 0 .. (U8 - 1)

\* ---------------------------------------------------------- Command table

Commands ==
  { "StartMeasurement", "StopMeasurement", "ReadMeasuredValue", "Sleep",
    "WakeUp", "StartFanCleaning", "RWAutoCleaningInterval",
    "DeviceInformation", "ReadVersion", "ReadDeviceStatusRegister", "Reset" }

\* impl From<Command> for u8
CommandToU8(value) ==
  CASE value = "StartMeasurement"         -> 0
    [] value = "StopMeasurement"          -> 1
    [] value = "ReadMeasuredValue"        -> 3
    [] value = "Sleep"                    -> 16
    [] value = "WakeUp"                   -> 17
    [] value = "StartFanCleaning"         -> 86
    [] value = "RWAutoCleaningInterval"   -> 128
    [] value = "DeviceInformation"        -> 208
    [] value = "ReadVersion"              -> 209
    [] value = "ReadDeviceStatusRegister" -> 210
    [] value = "Reset"                    -> 211

\* TryFromU8 with the arms of 0x10 and 0x11 exchanged
TryFromU8_swapped(value) ==
  CASE value = 0   -> "StartMeasurement"
    [] value = 1   -> "StopMeasurement"
    [] value = 3   -> "ReadMeasuredValue"
    [] value = 16  -> "WakeUp"
    [] value = 17  -> "Sleep"
    [] value = 86  -> "StartFanCleaning"
    [] value = 128 -> "RWAutoCleaningInterval"
    [] value = 208 -> "DeviceInformation"
    [] value = 209 -> "ReadVersion"
    [] value = 210 -> "ReadDeviceStatusRegister"
    [] value = 211 -> "Reset"
    [] OTHER       -> "CommandError"

\* impl TryFrom<u8> for Command: the Command, or "CommandError"
TryFromU8(value) ==
  CASE value = 0   -> "StartMeasurement"
    [] value = 1   -> "StopMeasurement"
    [] value = 3   -> "ReadMeasuredValue"
    [] value = 16  -> "Sleep"
    [] value = 17  -> "WakeUp"
    [] value = 86  -> "StartFanCleaning"
    [] value = 128 -> "RWAutoCleaningInterval"
    [] value = 208 -> "DeviceInformation"
    [] value = 209 -> "ReadVersion"
    [] value = 210 -> "ReadDeviceStatusRegister"
    [] value = 211 -> "Reset"
    [] OTHER       -> "CommandError"

\* --------------------------------------------------------------- checksum

RECURSIVE SumRange(_, _, _)
\* the 8-bit wrapping sum of buf[lo..hi]; wrapping addition is associative,
\* so the fold is evaluated by halves
SumRange(buf, lo, hi) ==
  IF lo > hi THEN 0
  ELSE IF lo = hi THEN buf[lo] % U8
  ELSE LET mid == (lo + hi) \div 2
       IN  (SumRange(buf, lo, mid) + SumRange(buf, mid + 1, hi)) % U8

\* buf.iter().fold(0_u8, |acc, x| acc.wrapping_add(*x)), over buf[1..n]
wrapping_sum(buf, n) == SumRange(buf, 1, n)

\* checksum with the fold started one byte late
checksum_skip_first(buf) == (U8 - 1) - SumRange(buf, 2, Len(buf))

\* fn checksum(buf) -> u8 : !c on a u8
checksum(buf) == (U8 - 1) - wrapping_sum(buf, Len(buf))

\* ------------------------------------------------- hdlc (byte stuffing)

\* HDLC_CONFIG: fend 0x7e, fesc 0x7d, translate {7e->5e, 7d->5d, 11->31, 13->33}
FEND == 126

FESC == 125

Translate(b) ==
  CASE b = 126 -> 94
    [] b = 125 -> 93
    [] b = 17  -> 49
    [] b = 19  -> 51
    [] OTHER   -> b

Untranslate(b) ==
  CASE b = 94 -> 126
    [] b = 93 -> 125
    [] b = 49 -> 17
    [] b = 51 -> 19
    [] OTHER  -> -1

\* the bytes that stand for b between the delimiters
Escaped(b) == IF Translate(b) # b THEN <<FESC, Translate(b)>> ELSE <<b>>

RECURSIVE stuff(_, _, _)
\* the escaped bytes of buf[lo..hi], concatenated by halves
stuff(buf, lo, hi) ==
  IF lo > hi THEN <<>>
  ELSE IF lo = hi THEN Escaped(buf[lo])
  ELSE LET mid == (lo + hi) \div 2
       IN  stuff(buf, lo, mid) \o stuff(buf, mid + 1, hi)

\* hdlc::encode: the escaped bytes between two frame delimiters
hdlc_encode(buf) == <<FEND>> \o stuff(buf, 1, Len(buf)) \o <<FEND>>

\* w[lo..hi] holds a delimiter, or an escape byte that no translated byte follows
BadEscape(w, lo, hi) ==
  \E i \in lo .. hi :
    \/ w[i] = FEND
    \/ w[i] = FESC /\ (i + 1 > hi \/ Untranslate(w[i + 1]) = -1)

RECURSIVE destuff(_, _, _, _)
\* the bytes of w[lo..hi] with the escapes undone (first is the index of the
\* first data byte of the frame), concatenated by halves
destuff(w, first, lo, hi) ==
  IF lo > hi THEN <<>>
  ELSE IF lo = hi
       THEN IF w[lo] = FESC THEN <<>>
            ELSE IF lo > first /\ w[lo - 1] = FESC THEN <<Untranslate(w[lo])>>
            ELSE <<w[lo]>>
  ELSE LET mid == (lo + hi) \div 2
       IN  destuff(w, first, lo, mid) \o destuff(w, first, mid + 1, hi)

\* hdlc::decode: [ok |-> TRUE, bytes |-> ...] or [ok |-> FALSE] (HDLCError)
hdlc_decode(w) ==
  IF Len(w) < 2 \/ w[1] # FEND \/ w[Len(w)] # FEND \/ BadEscape(w, 2, Len(w) - 1)
  THEN [ok |-> FALSE, bytes |-> <<>>]
  ELSE [ok |-> TRUE, bytes |-> destuff(w, 2, 2, Len(w) - 1)]

\* ------------------------------------------------------------ frame codec

\* struct Frame { addr, cmd, data }
Frame(a, c, d) == [addr |-> a, cmd |-> c, data |-> d]

\* AddrOk with the guard dropped
AddrOk_any(f) == TRUE

\* send_frame, lines 165-167: the address guard
AddrOk(f) == f.addr = 0

\* EncodeBuffer with the checksum taken before the payload is appended
EncodeBuffer_early_checksum(f) ==
  LET header == <<f.addr, CommandToU8(f.cmd), Len(f.data) % U8>>
  IN  header \o f.data \o <<checksum(header)>>

\* EncodeBuffer with a state byte 0 put after the opcode, as inbound frames
\* have it
EncodeBuffer_with_state(f) ==
  LET buffer == <<f.addr, CommandToU8(f.cmd), 0, Len(f.data) % U8>> \o f.data
  IN  buffer \o <<checksum(buffer)>>

\* send_frame, lines 168-174: the unstuffed bytes handed to hdlc::encode
EncodeBuffer(f) ==
  LET buffer == <<f.addr, CommandToU8(f.cmd), Len(f.data) % U8>> \o f.data
  IN  buffer \o <<checksum(buffer)>>

\* send_frame writing the packet a second time (a resend inside the call)
send_frame_twice(f, werr) ==
  IF ~AddrOk(f) THEN [kind |-> "FrameError", written |-> <<>>]
  ELSE IF werr THEN [kind |-> "Panic", written |-> <<>>]
  ELSE [kind |-> "Ok",
        written |-> <<hdlc_encode(EncodeBuffer(f)), hdlc_encode(EncodeBuffer(f))>>]

\* fn send_frame(&mut self, f): the outcome and the packets written to the
\* port; werr is whether the transport fails the write (write_all().unwrap())
send_frame(f, werr) ==
  IF ~AddrOk(f) THEN [kind |-> "FrameError", written |-> <<>>]
  ELSE IF werr THEN [kind |-> "Panic", written |-> <<>>]
  ELSE [kind |-> "Ok", written |-> <<hdlc_encode(EncodeBuffer(f))>>]

\* receive_frame, lines 204-205: the trailing byte against the recomputed sum
ChecksumOk(c, body) == c = checksum(body)

\* receive_frame, line 214: d.len() as u8 != l
LengthOk(n, l) == n % U8 = l

RxNone == [kind |-> "None", state |-> 0, addr |-> 0, cmd |-> "None",
           data |-> <<>>, raw |-> <<>>]

RxFail(k, d) == [kind |-> k, state |-> 0, addr |-> 0, cmd |-> "None",
                 data |-> <<>>, raw |-> d]

\* DecodeFrame with the opcode converted before the checksum is compared
DecodeFrame_opcode_first(d) ==
  IF Len(d) = 0 THEN RxFail("Panic", d)
  ELSE
    LET c    == d[Len(d)]
        body == SubSeq(d, 1, Len(d) - 1)
    IN  IF Len(body) < 2 THEN RxFail("Panic", d)
        ELSE IF TryFromU8(body[2]) = "CommandError" THEN RxFail("Panic", d)
        ELSE IF ~ChecksumOk(c, body) THEN RxFail("FrameError", d)
        ELSE IF Len(body) < 4 THEN RxFail("Panic", d)
        ELSE LET data == SubSeq(body, 5, Len(body))
             IN  IF ~LengthOk(Len(data), body[4]) THEN RxFail("FrameError", d)
                 ELSE [kind |-> "Ok", state |-> body[3], addr |-> body[1],
                       cmd |-> TryFromU8(body[2]), data |-> data, raw |-> d]

\* receive_frame, lines 204-226, on the de-stuffed bytes d.  kind is "Ok",
\* "FrameError" (the Err returned) or "Panic" (an unwrap() of None/Err, or a
\* Vec::remove(0) on an empty vector: the call aborts).
DecodeFrame(d) ==
  IF Len(d) = 0 THEN RxFail("Panic", d)
  ELSE
    LET c    == d[Len(d)]
        body == SubSeq(d, 1, Len(d) - 1)
    IN  IF ~ChecksumOk(c, body) THEN RxFail("FrameError", d)
        ELSE IF Len(body) < 2 THEN RxFail("Panic", d)
        ELSE IF TryFromU8(body[2]) = "CommandError" THEN RxFail("Panic", d)
        ELSE IF Len(body) < 4 THEN RxFail("Panic", d)
        ELSE LET data == SubSeq(body, 5, Len(body))
             IN  IF ~LengthOk(Len(data), body[4]) THEN RxFail("FrameError", d)
                 ELSE [kind |-> "Ok", state |-> body[3], addr |-> body[1],
                       cmd |-> TryFromU8(body[2]), data |-> data, raw |-> d]

\* fn receive_frame(&mut self), from the delimited frame w that read_frame
\* yielded: hdlc::decode(..).unwrap(), then the decode above
receive_frame(w) ==
  LET h == hdlc_decode(w)
  IN  IF ~h.ok THEN RxFail("Panic", <<>>) ELSE DecodeFrame(h.bytes)

\* ------------------------------------------------- response interpretation

DigitChar == <<"0", "1", "2", "3", "4", "5", "6", "7", "8", "9">>

RECURSIVE Dec(_)
\* format_args!("{}", n) of a u8: its decimal digits
Dec(n) == IF n < 10 THEN <<DigitChar[n + 1]>>
          ELSE Dec(n \div 10) \o <<DigitChar[(n % 10) + 1]>>

\* format_args!("{}.{}", major, minor)
Show2(major, minor) == Dec(major) \o <<".">> \o Dec(minor)

\* slice_to_f32 with the bytes taken least significant first (from_le_bytes)
slice_to_f32_le(a) == <<a[4] * U8 + a[3], a[2] * U8 + a[1]>>

\* fn slice_to_f32(a): t.try_into().unwrap() takes exactly four bytes, and
\* f32::from_be_bytes puts a[0] in the most significant byte.  The f32 is
\* named by its bit pattern, as its high and low 16-bit halves.
slice_to_f32(a) == <<a[1] * U8 + a[2], a[3] * U8 + a[4]>>

\* fn to_bool(i)
to_bool(i) == i # 0

\* BitAnd testing the bit above the one asked for (1 << (k + 1))
BitAnd_next(i, k) == IF (i \div (2 ^ (k + 1))) % 2 = 1 THEN 2 ^ (k + 1) ELSE 0

\* i & (1 << k) on a u8
BitAnd(i, k) == IF (i \div (2 ^ k)) % 2 = 1 THEN 2 ^ k ELSE 0

IsCont(b) == b >= 128 /\ b <= 191

\* the number of continuation bytes the lead byte b announces, -1 when b is
\* no lead byte
Utf8Need(b) ==
  IF b < 128 THEN 0
  ELSE IF b >= 194 /\ b <= 223 THEN 1
  ELSE IF b >= 224 /\ b <= 239 THEN 2
  ELSE IF b >= 240 /\ b <= 244 THEN 3
  ELSE -1

\* the byte after the lead byte b is in the range b allows
Utf8Second(b, c) ==
  /\ IsCont(c)
  /\ (b = 224 => c >= 160)
  /\ (b = 237 => c <= 159)
  /\ (b = 240 => c >= 144)
  /\ (b = 244 => c <= 143)

\* str::from_utf8(&data).is_ok(): every byte is a lead byte followed by the
\* continuation bytes it announces, or one of the continuation bytes of a lead
Utf8Valid(s) ==
  \A i \in 1 .. Len(s) :
    IF IsCont(s[i])
    THEN \E k \in 1 .. 3 :
           /\ i - k >= 1
           /\ Utf8Need(s[i - k]) >= k
           /\ \A j \in (i - k + 1) .. (i - 1) : IsCont(s[j])
    ELSE /\ Utf8Need(s[i]) >= 0
         /\ i + Utf8Need(s[i]) <= Len(s)
         /\ \A j \in (i + 1) .. (i + Utf8Need(s[i])) : IsCont(s[j])
         /\ (Utf8Need(s[i]) >= 1 => Utf8Second(s[i], s[i + 1]))

Outcome(k, v) == [kind |-> k, val |-> v]

\* get_device_info, lines 239-248, from what receive_frame returned
get_device_info_result(r) ==
  IF r.kind # "Ok" THEN Outcome("Panic", <<>>)
  ELSE IF ~Utf8Valid(r.data) THEN Outcome("Panic", <<>>)
  ELSE Outcome("Some", r.data)

\* read_version with the hardware revision taken from byte 2 of the payload
read_version_result_hw2(r) ==
  IF r.kind # "Ok" THEN Outcome("Panic", <<>>)
  ELSE IF Len(r.data) # 7 THEN Outcome("DeviceError", <<>>)
  ELSE Outcome("Ok", [firmware |-> Show2(r.data[1], r.data[2]),
                      hardware |-> Dec(r.data[3]),
                      shdlc    |-> Show2(r.data[6], r.data[7])])

\* read_version, lines 261-295
read_version_result(r) ==
  IF r.kind # "Ok" THEN Outcome("Panic", <<>>)
  ELSE IF Len(r.data) # 7 THEN Outcome("DeviceError", <<>>)
  ELSE Outcome("Ok", [firmware |-> Show2(r.data[1], r.data[2]),
                      hardware |-> Dec(r.data[4]),
                      shdlc    |-> Show2(r.data[6], r.data[7])])

\* start_measurement_result without the test of the state byte
start_measurement_result_any(r) ==
  IF r.kind # "Ok" THEN Outcome("Panic", <<>>) ELSE Outcome("Ok", <<>>)

\* start_measurement, lines 310-320
start_measurement_result(r) ==
  IF r.kind # "Ok" THEN Outcome("Panic", <<>>)
  ELSE IF r.state # 0 THEN Outcome("DeviceError", <<>>)
  ELSE Outcome("Ok", <<>>)

\* start_measurement_running with the flag set on every return
start_measurement_running_always(o, run) == TRUE

\* start_measurement, lines 310-320: the running flag once the call returns
\* with outcome o (the function never assigns self.running)
start_measurement_running(o, run) == run

\* device_reset_result with the state byte tested as start_measurement does
device_reset_result_checked(r) ==
  IF r.kind # "Ok" THEN Outcome("Panic", <<>>)
  ELSE IF r.state # 0 THEN Outcome("DeviceError", <<>>)
  ELSE Outcome("Ok", <<>>)

\* device_reset, lines 334-340
device_reset_result(r) ==
  IF r.kind # "Ok" THEN Outcome("Panic", <<>>) ELSE Outcome("Ok", <<>>)

\* device_reset_running with the flag set instead of cleared
device_reset_running_set(o, run) == IF o.kind = "Ok" THEN TRUE ELSE run

\* device_reset, line 338: self.running = false, reached only without panic
device_reset_running(o, run) == IF o.kind = "Ok" THEN FALSE ELSE run

MeasurementFields ==
  <<"mass_1_0", "mass_2_5", "mass_4_0", "mass_10", "concentration_pm005",
    "concentration_pm010", "concentration_pm025", "concentration_pm040",
    "concentration_pm100", "particle">>

\* read_measurement, lines 352-404: a non-empty payload is sliced at the fixed
\* offsets 0..40 (a slice past the end of the payload panics) and the ten
\* values are moved into the fields of Sps30Measurement
read_measurement_result(r) ==
  IF r.kind # "Ok" THEN Outcome("Panic", <<>>)
  ELSE IF Len(r.data) = 0 THEN Outcome("Ok", [some |-> FALSE, m |-> <<>>])
  ELSE IF Len(r.data) < 40 THEN Outcome("Panic", <<>>)
  ELSE Outcome("Ok",
         [some |-> TRUE,
          m |-> [mass_1_0            |-> slice_to_f32(SubSeq(r.data, 1, 4)),
                 mass_2_5            |-> slice_to_f32(SubSeq(r.data, 5, 8)),
                 mass_4_0            |-> slice_to_f32(SubSeq(r.data, 9, 12)),
                 mass_10             |-> slice_to_f32(SubSeq(r.data, 13, 16)),
                 concentration_pm005 |-> slice_to_f32(SubSeq(r.data, 17, 20)),
                 concentration_pm010 |-> slice_to_f32(SubSeq(r.data, 21, 24)),
                 concentration_pm025 |-> slice_to_f32(SubSeq(r.data, 25, 28)),
                 concentration_pm040 |-> slice_to_f32(SubSeq(r.data, 29, 32)),
                 concentration_pm100 |-> slice_to_f32(SubSeq(r.data, 33, 36)),
                 particle            |-> slice_to_f32(SubSeq(r.data, 37, 40))]])

\* read_device_status, lines 417-441
read_device_status_result(r) ==
  IF r.kind # "Ok" THEN Outcome("Panic", <<>>)
  ELSE IF Len(r.data) # 5 THEN Outcome("DeviceError", <<>>)
  ELSE LET fan_err   == to_bool(BitAnd(r.data[4], 4))
           laser_err == to_bool(BitAnd(r.data[4], 5))
           speed_err == to_bool(BitAnd(r.data[2], 5))
           faults    == (IF fan_err THEN <<"Fan">> ELSE <<>>)
                        \o (IF laser_err THEN <<"Laser">> ELSE <<>>)
                        \o (IF speed_err THEN <<"FanSpeed">> ELSE <<>>)
       IN  Outcome("Ok", [some |-> Len(faults) > 0, faults |-> faults])

\* ------------------------------------------ the device and the serial link

\* Bounds of the model.
MaxPolls == 2

MaxPayload == 257

MaxNoisePos == 6

Fill(n, b) == [i \in 1 .. n |-> b]

Ramp(n) == [i \in 1 .. n |-> (7 + 37 * i) % U8]

PayloadLens == {0, 1, 2, 5, 7, 39, 40, 41, MaxPayload - 2, MaxPayload - 1, MaxPayload}

SmallPayloads ==
  { <<>>, <<0>>, <<1, 2>>, <<125, 17, 19, 126>>, <<0, 32, 0, 48, 0>> }

Payloads ==
  {Fill(n, b) : n \in PayloadLens, b \in {0, 255}}
    \cup {Ramp(n) : n \in {5, 7, 40}}
    \cup {<<0, b1, 0, b3, 0>> : b1 \in {0, 32, 223}, b3 \in {0, 16, 32, 48, 207}}
    \cup {<<63, 128, 0, 0>> \o Ramp(36)}
    \cup {<<1, 2, 0, 7, 0, 2, 0>>, <<1, 2, 9, 7, 9, 2, 0>>, <<255, 0, 0, 100, 0, 10, 99>>}
    \cup {<<83, 80, 83, 51, 48>>, <<195, 40>>}
    \cup SmallPayloads

\* Opcodes the device answers with: the six the driver requests, and two
\* that are in no table (a device of another firmware).
DevOpcodes == {0, 3, 208, 209, 210, 211, 2, 255}

DevStates == {0, 1}

\* The SHDLC checksum as the device computes it (spec.md 4.1).
DeviceChecksum(b) == (U8 - 1) - wrapping_sum(b, Len(b))

\* An inbound frame, de-stuffed: address, opcode, state, length, payload, checksum
DevFrame(a, o, st, l, p) ==
  LET b == <<a, o, st, l>> \o p IN b \o <<DeviceChecksum(b)>>

\* What a device sends: consistent frames (a payload of 256 bytes or more has
\* no length byte that names it: the byte wraps), frames whose length byte
\* names another size, runts shorter than the five fixed bytes, and frames
\* wrong in their checksum and in their opcode or length byte at once.
DeviceFrames ==
  {DevFrame(0, o, st, Len(p) % U8, p) : o \in DevOpcodes, st \in DevStates, p \in Payloads}
    \cup {DevFrame(0, o, 0, l, p) : o \in DevOpcodes, l \in {0, 1, 3, 255}, p \in SmallPayloads}
    \cup { <<>>, <<255>>, <<0>>, <<0, 255>>, <<0, 0, 255>>, <<0, 0, 0, 255>>,
           <<0, 2, 253>>, <<1, 2, 3>> }
    \cup { <<0, 2, 0, 3, 9, 0>>, <<0, 255, 1, 0, 0>>, <<0, 3, 0, 2, 9, 0>> }

\* Frames the link may change one byte of.
NoisyBase ==
  {DevFrame(0, o, st, Len(p) % U8, p) :
     o \in DevOpcodes \ {2, 255}, st \in DevStates, p \in SmallPayloads \cup {Fill(MaxPayload - 2, 0)}}

NoisePositions(d) == {i \in 1 .. Len(d) : i <= MaxNoisePos \/ i >= Len(d) - 1}

NoiseBytes == {0, 1, 2, 126, 255}

\* d with the byte at one position replaced by a different value
OneByteChanged(d) ==
  {[d EXCEPT ![x[1]] = x[2]] :
     x \in {y \in NoisePositions(d) \X NoiseBytes : y[2] # d[y[1]]}}

\* What read_frame can yield: the frame the device sent and the delimited
\* bytes that arrived (unchanged, with one byte changed, or with a broken
\* escape sequence).
Arrivals ==
  {[dev |-> d, wire |-> hdlc_encode(d)] : d \in DeviceFrames}
    \cup UNION {{[dev |-> d, wire |-> hdlc_encode(r)] : r \in OneByteChanged(d)}
                : d \in NoisyBase}
    \cup {[dev |-> DevFrame(0, 0, 0, 0, <<>>), wire |-> w] :
            w \in {<<FEND, FESC, 0, FEND>>, <<FEND, 0, FESC, FEND>>, <<FEND, 0, 0>>}}

\* receive_frame applied to each arrival
Deliveries == {[dev |-> a.dev, rx |-> receive_frame(a.wire)] : a \in Arrivals}

\* ------------------------------------------------------------ the session

ProbeNone == [fn |-> "none", in |-> <<>>, out |-> <<>>]

Result(name, o) == [op |-> name, kind |-> o.kind, val |-> o.val]

\* Sps30::new: running false, nothing written, no call made
Init ==
  /\ running = FALSE
  /\ port = <<>>
  /\ pc = "idle"
  /\ op = "new"
  /\ polls = 0
  /\ trace = <<>>
  /\ dev = <<>>
  /\ rx = RxNone
  /\ res = Result("new", Outcome("None", <<>>))
  /\ probe = ProbeNone

\* The request frame each operation builds.
get_device_info_frame == Frame(0, "DeviceInformation", <<0>>)

read_version_frame == Frame(0, "ReadVersion", <<>>)

\* start_measurement_frame asking for the integer output format (0x05)
start_measurement_frame_integer == Frame(0, "StartMeasurement", <<1, 5>>)

start_measurement_frame == Frame(0, "StartMeasurement", <<1, 3>>)

device_reset_frame == Frame(0, "Reset", <<>>)

read_measurement_frame == Frame(0, "ReadMeasuredValue", <<>>)

read_device_status_frame == Frame(0, "ReadDeviceStatusRegister", <<1>>)

\* Transmit without the sleep of device_reset: the call goes from the write
\* straight to receive_frame
Transmit_no_pause(name, f, werr, pause) ==
  LET s == send_frame(f, werr)
  IN  /\ port' = s.written
      /\ op' = name
      /\ IF s.kind = "Ok"
         THEN /\ pc' = "recv"
              /\ res' = Result(name, Outcome("Pending", <<>>))
              /\ trace' = <<"write">>
         ELSE /\ pc' = "panicked"
              /\ res' = Result(name, Outcome("Panic", <<>>))
              /\ trace' = <<>>
      /\ polls' = 0
      /\ dev' = <<>>
      /\ rx' = RxNone
      /\ UNCHANGED <<running, probe>>

\* self.send_frame(f).unwrap() at the head of an operation, and for
\* device_reset the sleep that follows it: the call goes on to receive_frame,
\* or aborts when send_frame failed
Transmit(name, f, werr, pause) ==
  LET s == send_frame(f, werr)
  IN  /\ port' = s.written
      /\ op' = name
      /\ IF s.kind = "Ok"
         THEN /\ pc' = "recv"
              /\ res' = Result(name, Outcome("Pending", <<>>))
              /\ trace' = IF pause THEN <<"write", "sleep">> ELSE <<"write">>
         ELSE /\ pc' = "panicked"
              /\ res' = Result(name, Outcome("Panic", <<>>))
              /\ trace' = <<>>
      /\ polls' = 0
      /\ dev' = <<>>
      /\ rx' = RxNone
      /\ UNCHANGED <<running, probe>>

\* start_measurement, lines 299-302: the call returns before anything is sent
Rejected(name) ==
  /\ port' = <<>>
  /\ op' = name
  /\ pc' = "idle"
  /\ res' = Result(name, Outcome("DeviceError", <<>>))
  /\ trace' = <<>>
  /\ polls' = 0
  /\ dev' = <<>>
  /\ rx' = RxNone
  /\ UNCHANGED <<running, probe>>

get_device_info ==
  /\ pc = "idle"
  /\ \E werr \in BOOLEAN : Transmit("get_device_info", get_device_info_frame, werr, FALSE)

read_version ==
  /\ pc = "idle"
  /\ \E werr \in BOOLEAN : Transmit("read_version", read_version_frame, werr, FALSE)

start_measurement ==
  /\ pc = "idle"
  /\ IF running
     THEN Rejected("start_measurement")
     ELSE \E werr \in BOOLEAN :
            Transmit("start_measurement", start_measurement_frame, werr, FALSE)

device_reset ==
  /\ pc = "idle"
  /\ \E werr \in BOOLEAN : Transmit("device_reset", device_reset_frame, werr, TRUE)

read_measurement ==
  /\ pc = "idle"
  /\ \E werr \in BOOLEAN : Transmit("read_measurement", read_measurement_frame, werr, FALSE)

read_device_status ==
  /\ pc = "idle"
  /\ \E werr \in BOOLEAN :
       Transmit("read_device_status", read_device_status_frame, werr, FALSE)

ReadBegun(t) == IF Len(t) > 0 /\ t[Len(t)] = "read" THEN t ELSE t \o <<"read">>

\* receive_frame, lines 193-199: read_frame returned None, the loop goes on.
\* The loop has no counter and no deadline; polls numbers its iterations
\* modulo MaxPolls + 1, so that an iteration is always a step.
read_frame_none ==
  /\ pc = "recv"
  /\ polls' = (polls + 1) % (MaxPolls + 1)
  /\ trace' = ReadBegun(trace)
  /\ UNCHANGED <<running, port, pc, op, dev, rx, res, probe>>

\* read_frame returned a frame: receive_frame returns (or aborts) and the
\* operation interprets it; o is its outcome, run the running flag after it
Complete(x, o, run) ==
  /\ dev' = x.dev
  /\ rx' = x.rx
  /\ res' = Result(op, o)
  /\ pc' = IF o.kind = "Panic" THEN "panicked" ELSE "idle"
  /\ running' = run
  /\ polls' = 0
  /\ trace' = ReadBegun(trace)
  /\ UNCHANGED <<port, op, probe>>

get_device_info_ret ==
  /\ pc = "recv" /\ op = "get_device_info"
  /\ \E x \in Deliveries : Complete(x, get_device_info_result(x.rx), running)

read_version_ret ==
  /\ pc = "recv" /\ op = "read_version"
  /\ \E x \in Deliveries : Complete(x, read_version_result(x.rx), running)

start_measurement_ret ==
  /\ pc = "recv" /\ op = "start_measurement"
  /\ \E x \in Deliveries :
       LET o == start_measurement_result(x.rx)
       IN  Complete(x, o, start_measurement_running(o, running))

device_reset_ret ==
  /\ pc = "recv" /\ op = "device_reset"
  /\ \E x \in Deliveries :
       LET o == device_reset_result(x.rx)
       IN  Complete(x, o, device_reset_running(o, running))

read_measurement_ret ==
  /\ pc = "recv" /\ op = "read_measurement"
  /\ \E x \in Deliveries : Complete(x, read_measurement_result(x.rx), running)

read_device_status_ret ==
  /\ pc = "recv" /\ op = "read_device_status"
  /\ \E x \in Deliveries : Complete(x, read_device_status_result(x.rx), running)

Next ==
  \/ get_device_info
  \/ read_version
  \/ start_measurement
  \/ device_reset
  \/ read_measurement
  \/ read_device_status
  \/ read_frame_none
  \/ get_device_info_ret
  \/ read_version_ret
  \/ start_measurement_ret
  \/ device_reset_ret
  \/ read_measurement_ret
  \/ read_device_status_ret

Spec == Init /\ [][Next]_vars

\* The session with the driver's own loop running: while receive_frame is in
\* its loop (lines 193-199) the next iteration is eventually executed. Nothing
\* is assumed of the device or of the caller.
LiveSpec == Init /\ [][Next]_vars /\ WF_vars(read_frame_none)

\* ------------------------------------------- the codec functions applied

\* Frames handed to send_frame: any address, any Command, payloads of up to
\* MaxPayload - 2 bytes.
ProbeAddrs == {0, 1, 255}

ProbePayloads ==
  SmallPayloads
    \cup {Ramp(40), Fill(MaxPayload - 3, 17), Fill(MaxPayload - 2, 0), Fill(MaxPayload - 2, 255)}

ProbeFrames ==
  {Frame(a, c, d) : a \in ProbeAddrs, c \in Commands, d \in ProbePayloads}

\* The request as a device would echo it: the state byte st put after the
\* opcode (for st = 0 the checksum of the frame stays the one sent).
InsertState(b, st) == <<b[1], b[2], st>> \o SubSeq(b, 3, Len(b))

\* send_frame applied to each frame
ProbeSends == {[f |-> f, s |-> send_frame(f, FALSE)] : f \in ProbeFrames}

\* u8::from(command)
probe_from ==
  /\ \E c \in Commands : probe' = [fn |-> "from", in |-> c, out |-> CommandToU8(c)]
  /\ port' = <<>>
  /\ UNCHANGED <<running, pc, op, polls, trace, dev, rx, res>>

\* Command::try_from(byte)
probe_try_from ==
  /\ \E v \in Byte : probe' = [fn |-> "try_from", in |-> v, out |-> TryFromU8(v)]
  /\ port' = <<>>
  /\ UNCHANGED <<running, pc, op, polls, trace, dev, rx, res>>

\* self.send_frame(f) on a fresh port
probe_send_frame ==
  /\ \E x \in ProbeSends :
       /\ probe' = [fn |-> "send_frame", in |-> x.f, out |-> x.s.kind]
       /\ port' = x.s.written
  /\ UNCHANGED <<running, pc, op, polls, trace, dev, rx, res>>

\* self.receive_frame() on the packet just written, echoed with state 0
probe_round_trip ==
  /\ probe.fn = "send_frame" /\ probe.out = "Ok" /\ Len(port) = 1
  /\ LET sentBytes == hdlc_decode(port[1]).bytes
         echoed    == hdlc_encode(InsertState(sentBytes, 0))
     IN  probe' = [fn |-> "round_trip", in |-> probe.in, out |-> receive_frame(echoed)]
  /\ UNCHANGED <<running, port, pc, op, polls, trace, dev, rx, res>>

CodecNext ==
  \/ probe_from
  \/ probe_try_from
  \/ probe_send_frame
  \/ probe_round_trip

CodecSpec == Init /\ [][CodecNext]_vars

\* ================================================================= claims

\* The 11 opcodes of the command table (spec.md, section 3).
TableOpcodes == {0, 1, 3, 16, 17, 86, 128, 208, 209, 210, 211}

\* The packet start_measurement writes.
StartPacket == hdlc_encode(EncodeBuffer(start_measurement_frame))

\* d is a consistent inbound frame of the protocol: address 0, an opcode of
\* the table, a length byte that names the payload size, the SHDLC checksum.
ValidlyEncoded(d) ==
  /\ Len(d) >= 5
  /\ Len(d) - 5 < U8
  /\ d[1] = 0
  /\ d[2] \in TableOpcodes
  /\ d[4] = Len(d) - 5
  /\ d[Len(d)] = DeviceChecksum(SubSeq(d, 1, Len(d) - 1))

\* a and b have the same length and differ at exactly one position
SingleByteChange(a, b) ==
  /\ Len(a) = Len(b)
  /\ Cardinality({i \in 1 .. Len(a) : a[i] # b[i]}) = 1

\* d ends with the SHDLC checksum of the bytes before it
ChecksumValid(d) ==
  Len(d) >= 1 /\ d[Len(d)] = DeviceChecksum(SubSeq(d, 1, Len(d) - 1))

\* C1: when start_measurement is called right after a start_measurement that
\* returned Ok (no reset in between), the second call returns DeviceError and
\* writes no request frame to the transport.
C1_SecondStartRejected ==
  [][ (/\ pc = "idle"
       /\ res.op = "start_measurement" /\ res.kind = "Ok"
       /\ op' = "start_measurement")
      => (res'.kind = "DeviceError" /\ port' = <<>> /\ pc' = "idle") ]_vars

\* C2: whenever start_measurement has returned Ok, the running flag is true.
C2_RunningAfterStart ==
  (pc = "idle" /\ res.op = "start_measurement" /\ res.kind = "Ok") => running

\* C4: a device_reset that returned Ok leaves running false, and a
\* start_measurement that follows it is not rejected by the already-running
\* guard: unless the transport refuses the write, it goes on to receive with
\* exactly the StartMeasurement request written.
C4_ResetClearsRunning ==
  /\ [](  (pc = "idle" /\ res.op = "device_reset" /\ res.kind = "Ok") => ~running)
  /\ [][ (/\ pc = "idle"
          /\ res.op = "device_reset" /\ res.kind = "Ok"
          /\ op' = "start_measurement")
         => /\ res'.kind # "DeviceError"
            /\ (res'.kind = "Pending" => pc' = "recv" /\ port' = <<StartPacket>>)
            /\ (res'.kind # "Pending" => pc' = "panicked" /\ port' = <<>>) ]_vars

C4_Witness ==
  pc = "idle" /\ res.op = "device_reset" /\ res.kind = "Ok" /\ ~running

\* C5: for a frame with address 0, a Command of the table and a payload of at
\* most 255 bytes, decoding the encoded frame with a state byte 0 inserted
\* after the opcode yields state 0 and the same address, command and payload.
C5_RoundTrip ==
  (probe.fn = "round_trip" /\ probe.in.addr = 0 /\ Len(probe.in.data) < U8)
    => /\ probe.out.kind = "Ok"
       /\ probe.out.state = 0
       /\ probe.out.addr = probe.in.addr
       /\ probe.out.cmd = probe.in.cmd
       /\ probe.out.data = probe.in.data

C5_Witness ==
  /\ probe.fn = "round_trip"
  /\ probe.in.cmd = "ReadMeasuredValue"
  /\ Len(probe.in.data) = U8 - 1
  /\ probe.out.kind = "Ok"

\* C6: when the frame that arrives is a validly encoded frame with exactly one
\* byte (header, payload or checksum) changed to another value, receive_frame
\* fails with FrameError.
C6_SingleByteChangeRejected ==
  (rx.kind # "None" /\ ValidlyEncoded(dev) /\ SingleByteChange(dev, rx.raw))
    => rx.kind = "FrameError"

C6_Witness ==
  /\ rx.kind = "FrameError"
  /\ ValidlyEncoded(dev)
  /\ SingleByteChange(dev, rx.raw)
  /\ dev[2] # rx.raw[2]

\* C7: receive_frame fails with FrameError on every checksum-valid inbound
\* frame (its opcode one of the table) whose length byte differs from the
\* number of payload bytes after the 4-byte header, whatever that number is
\* (256 and more included, where the count does not fit in one byte).
C7_LengthMismatchRejected ==
  (/\ rx.kind # "None"
   /\ Len(rx.raw) >= 5
   /\ ChecksumValid(rx.raw)
   /\ rx.raw[2] \in TableOpcodes
   /\ rx.raw[4] # Len(rx.raw) - 5)
    => rx.kind = "FrameError"

\* C8: the command table is a bijection between the 11 Commands and the 11
\* opcodes of the table: a Command converts to an opcode of the table that
\* converts back to it, an opcode of the table converts to a Command that
\* converts back to it, and each of the other 245 bytes gives CommandError.
C8_CommandTableBijection ==
  /\ Cardinality(Commands) = 11
  /\ Cardinality(TableOpcodes) = 11
  /\ Cardinality(Byte \ TableOpcodes) = 245
  /\ probe.fn = "from"
       => probe.out \in TableOpcodes /\ TryFromU8(probe.out) = probe.in
  /\ probe.fn = "try_from"
       => IF probe.in \in TableOpcodes
          THEN probe.out \in Commands /\ CommandToU8(probe.out) = probe.in
          ELSE probe.out = "CommandError"

C8_Witness ==
  probe.fn = "try_from" /\ probe.in = 2 /\ probe.out = "CommandError"

\* C9: on an inbound frame with a valid checksum and a consistent length but
\* an opcode outside the command table, receive_frame ends with a
\* command-decode error returned as an error value: it does not abort.
C9_UnknownOpcodeIsError ==
  (/\ rx.kind # "None"
   /\ Len(rx.raw) >= 5
   /\ ChecksumValid(rx.raw)
   /\ rx.raw[4] = Len(rx.raw) - 5
   /\ rx.raw[2] \notin TableOpcodes)
    => rx.kind = "CommandError"

\* C10: send_frame on a frame whose address is not 0 fails with FrameError and
\* writes nothing; every packet on the transport carries address byte 0.
C10_AddressGuard ==
  /\ (probe.fn = "send_frame" /\ probe.in.addr # 0)
       => probe.out = "FrameError" /\ port = <<>>
  /\ \A i \in 1 .. Len(port) : hdlc_decode(port[i]).bytes[1] = 0

C10_Witness ==
  /\ probe.fn = "send_frame"
  /\ probe.in.addr = 255
  /\ probe.out = "FrameError"
  /\ port = <<>>

\* The big-endian 4-byte word at byte offset off of d, as its high and low
\* 16-bit halves.
BEWord(d, off) == <<d[off + 1] * U8 + d[off + 2], d[off + 3] * U8 + d[off + 4]>>

\* C11: read_measurement returns Ok(None) on an empty response payload, and on
\* a payload of exactly 40 bytes Ok(Some(m)) where the ten fields of m, in the
\* order mass_1_0, mass_2_5, mass_4_0, mass_10, concentration_pm005, _pm010,
\* _pm025, _pm040, _pm100, particle, are the big-endian 4-byte words at the
\* offsets 0, 4, ..., 36 of the payload.
C11_MeasurementDecoded ==
  (pc = "idle" /\ res.op = "read_measurement" /\ rx.kind = "Ok")
    => /\ Len(rx.data) = 0 => (res.kind = "Ok" /\ ~res.val.some)
       /\ Len(rx.data) = 40
            => /\ res.kind = "Ok"
               /\ res.val.some
               /\ DOMAIN res.val.m = {MeasurementFields[k] : k \in 1 .. 10}
               /\ \A k \in 1 .. 10 :
                    res.val.m[MeasurementFields[k]] = BEWord(rx.data, 4 * (k - 1))

C11_Witness ==
  /\ pc = "idle" /\ res.op = "read_measurement" /\ res.kind = "Ok"
  /\ Len(rx.data) = 40
  /\ res.val.some
  /\ res.val.m.mass_1_0 = <<16256, 0>>
  /\ res.val.m.particle # res.val.m.mass_2_5

\* C12: read_measurement returns DeviceError for every well-formed response
\* whose payload length is neither 0 nor 40; it never aborts on such a
\* response and never returns a measurement taken from a truncated payload.
C12_MeasurementLengthChecked ==
  (pc # "recv" /\ res.op = "read_measurement" /\ rx.kind = "Ok"
     /\ rx.cmd = "ReadMeasuredValue" /\ Len(rx.data) \notin {0, 40})
    => res.kind = "DeviceError"

\* Bit k of the byte b, counted from the least significant bit.
BitSet(b, k) == b % (2 ^ (k + 1)) >= 2 ^ k

\* The faults a 5-byte status payload d reports, in the order Fan, Laser,
\* FanSpeed.
ExpectedFaults(d) ==
  LET on(f) == CASE f = "Fan"      -> BitSet(d[4], 4)
                 [] f = "Laser"    -> BitSet(d[4], 5)
                 [] f = "FanSpeed" -> BitSet(d[2], 5)
  IN  SelectSeq(<<"Fan", "Laser", "FanSpeed">>, on)

\* C13: read_device_status returns DeviceError when the response payload is
\* not 5 bytes long; for a 5-byte payload Fan is reported iff bit 4 of byte 3
\* is set, Laser iff bit 5 of byte 3, FanSpeed iff bit 5 of byte 1; the result
\* is Ok(None) when no fault is reported and otherwise Ok(Some(list)) with the
\* faults in the order Fan, Laser, FanSpeed, none of them twice.
C13_StatusDecoded ==
  (pc = "idle" /\ res.op = "read_device_status" /\ rx.kind = "Ok")
    => IF Len(rx.data) # 5 THEN res.kind = "DeviceError"
       ELSE /\ res.kind = "Ok"
            /\ res.val.some = (ExpectedFaults(rx.data) # <<>>)
            /\ res.val.faults = ExpectedFaults(rx.data)

C13_Witness ==
  /\ pc = "idle" /\ res.op = "read_device_status" /\ res.kind = "Ok"
  /\ rx.kind = "Ok" /\ rx.data = <<0, 32, 0, 48, 0>>
  /\ res.val.some
  /\ res.val.faults = <<"Fan", "Laser", "FanSpeed">>

\* The value of the decimal digit c.
DigitOf(c) == CHOOSE k \in 0 .. 9 : DigitChar[k + 1] = c

RECURSIVE NumVal(_)
\* The number a string of decimal digits denotes.
NumVal(s) == IF Len(s) = 0 THEN 0
             ELSE 10 * NumVal(SubSeq(s, 1, Len(s) - 1)) + DigitOf(s[Len(s)])

\* s is the decimal numeral of n: digits only, no leading zero, value n.
IsDecOf(s, n) ==
  /\ Len(s) >= 1
  /\ \A i \in 1 .. Len(s) : \E k \in 1 .. 10 : DigitChar[k] = s[i]
  /\ (Len(s) > 1 => s[1] # "0")
  /\ NumVal(s) = n

\* s is the numeral of a, a dot, and the numeral of b.
IsDotted(s, a, b) ==
  \E q \in 1 .. Len(s) :
    /\ s[q] = "."
    /\ IsDecOf(SubSeq(s, 1, q - 1), a)
    /\ IsDecOf(SubSeq(s, q + 1, Len(s)), b)

\* Two 7-byte version payloads that differ at most in their bytes 2 and 4.
SameVersionBytes(x, y) ==
  \A i \in {1, 2, 4, 6, 7} : x[i] = y[i]

\* C14: read_version returns DeviceError for a response payload that is not 7
\* bytes long; for a 7-byte payload the firmware string is major.minor from
\* bytes 0 and 1, the hardware revision is byte 3 and the SHDLC version is
\* major.minor from bytes 5 and 6, and bytes 2 and 4 have no influence.
C14_VersionDecoded ==
  (pc = "idle" /\ res.op = "read_version" /\ rx.kind = "Ok")
    => IF Len(rx.data) # 7 THEN res.kind = "DeviceError"
       ELSE /\ res.kind = "Ok"
            /\ IsDotted(res.val.firmware, rx.data[1], rx.data[2])
            /\ IsDecOf(res.val.hardware, rx.data[4])
            /\ IsDotted(res.val.shdlc, rx.data[6], rx.data[7])
            /\ \A y \in {z \in Payloads : Len(z) = 7} :
                 SameVersionBytes(rx.data, y)
                   => read_version_result([rx EXCEPT !.data = y]).val = res.val

C14_Witness ==
  /\ pc = "idle" /\ res.op = "read_version" /\ res.kind = "Ok"
  /\ rx.kind = "Ok" /\ rx.data = <<1, 2, 9, 7, 9, 2, 0>>
  /\ res.val.firmware = <<"1", ".", "2">>
  /\ res.val.hardware = <<"7">>
  /\ res.val.shdlc = <<"2", ".", "0">>

\* C15: when running is false and the device answers StartMeasurement with a
\* non-zero state byte, start_measurement returns DeviceError and running
\* stays false, and a start_measurement called after it transmits again: it
\* is not rejected by the guard and, unless the transport refuses the write,
\* writes exactly the StartMeasurement request.
C15_FailedStartStaysIdle ==
  /\ [](  (/\ pc = "idle" /\ res.op = "start_measurement"
           /\ rx.kind = "Ok" /\ rx.state # 0)
          => (res.kind = "DeviceError" /\ ~running) )
  /\ [][ (/\ pc = "idle" /\ res.op = "start_measurement"
          /\ rx.kind = "Ok" /\ rx.state # 0
          /\ op' = "start_measurement")
         => /\ ~running'
            /\ res'.kind # "DeviceError"
            /\ (res'.kind = "Pending" => pc' = "recv" /\ port' = <<StartPacket>>)
            /\ (res'.kind # "Pending" => pc' = "panicked" /\ port' = <<>>) ]_vars

C15_Witness ==
  /\ pc = "idle" /\ res.op = "start_measurement" /\ res.kind = "DeviceError"
  /\ rx.kind = "Ok" /\ rx.cmd = "StartMeasurement" /\ rx.state # 0
  /\ port = <<StartPacket>>
  /\ ~running

\* C16: every public operation terminates once its request is written: a
\* call that is waiting for the response eventually stops waiting, also when
\* the inbound stream never delivers a complete frame.
C16_CallTerminates == (pc = "recv") ~> (pc # "recv")

\* The call in progress ended before anything was received although it was
\* not turned away by the already-running guard: the transport refused the
\* write.
WriteFailed ==
  /\ op # "new" /\ pc # "recv" /\ rx.kind = "None"
  /\ (op = "start_measurement" => ~running)

\* The frame received has a valid checksum and a consistent length but an
\* opcode outside the command table.
UnknownOpcodeReceived ==
  /\ rx.kind # "None"
  /\ Len(rx.raw) >= 5
  /\ ChecksumValid(rx.raw)
  /\ rx.raw[4] = Len(rx.raw) - 5
  /\ rx.raw[2] \notin TableOpcodes

ErrorKinds == {"FrameError", "DeviceError", "CommandError", "TransportError"}

\* C17: no failure inside a public operation aborts the program: after a
\* transport write failure, a checksum or length mismatch in the response, or
\* an unknown response opcode, the call has returned to the caller with an
\* error result.
C17_FailuresReturned ==
  (WriteFailed \/ rx.kind = "FrameError" \/ UnknownOpcodeReceived)
    => (pc = "idle" /\ res.kind \in ErrorKinds)

ReadOps == {"get_device_info", "read_version", "read_measurement",
            "read_device_status"}

\* C18: running is false after construction and changes only from false to
\* true in a start_measurement that returns Ok and from true to false in a
\* device_reset; get_device_info, read_version, read_measurement and
\* read_device_status leave it unchanged on every outcome, and a device_reset
\* that returns leaves it false, so that running is false unless a
\* start_measurement has succeeded since the last reset.
C18_RunningTransitions ==
  /\ ~running
  /\ [][ running' # running
         => \/ (/\ op' = "start_measurement" /\ res'.kind = "Ok"
                /\ ~running /\ running')
            \/ (op' = "device_reset" /\ running /\ ~running') ]_vars
  /\ [][ op' \in ReadOps => running' = running ]_vars
  /\ [][ (op' = "device_reset" /\ pc = "recv" /\ pc' = "idle") => ~running' ]_vars

C18_Witness ==
  /\ pc \in {"idle", "panicked"} /\ res.op = "read_device_status"
  /\ res.kind \in {"DeviceError", "Panic"}
  /\ rx.kind # "None"
  /\ ~running

\* The byte that makes the 8-bit sum of b[1..n] and itself equal to 255: the
\* bitwise NOT of the wrapping sum of b[1..n].
NotOfSum(b, n) == CHOOSE c \in Byte : (SumRange(b, 1, n) + c) % U8 = U8 - 1

\* C19: for every frame with address 0 and a payload of n <= 255 bytes, the
\* unstuffed bytes send_frame hands to the byte-stuffing encoder are exactly
\* address, opcode of the command, n, the payload bytes, and c, the bitwise
\* NOT of the 8-bit wrapping sum of all bytes before it; there is no state
\* byte.
C19_OutboundLayout ==
  (probe.fn = "send_frame" /\ probe.in.addr = 0 /\ Len(probe.in.data) < U8)
    => /\ probe.out = "Ok"
       /\ Len(port) = 1
       /\ hdlc_decode(port[1]).ok
       /\ LET b == hdlc_decode(port[1]).bytes
              n == Len(probe.in.data)
          IN  /\ Len(b) = n + 4
              /\ b[1] = 0
              /\ b[2] = CommandToU8(probe.in.cmd)
              /\ b[3] = n
              /\ SubSeq(b, 4, n + 3) = probe.in.data
              /\ b[n + 4] = NotOfSum(b, n + 3)

C19_Witness ==
  /\ probe.fn = "send_frame" /\ probe.out = "Ok"
  /\ probe.in.cmd = "ReadMeasuredValue"
  /\ probe.in.data = <<125, 17, 19, 126>>
  /\ Len(port) = 1
  /\ Len(port[1]) > Len(probe.in.data) + 6
  /\ hdlc_decode(port[1]).bytes = <<0, 3, 4, 125, 17, 19, 126, 217>>

\* The request frame of each public operation.
RequestFrame(name) ==
  CASE name = "get_device_info"    -> get_device_info_frame
    [] name = "read_version"       -> read_version_frame
    [] name = "start_measurement"  -> start_measurement_frame
    [] name = "device_reset"       -> device_reset_frame
    [] name = "read_measurement"   -> read_measurement_frame
    [] name = "read_device_status" -> read_device_status_frame

\* The number of entries of the sequence t equal to e.
Count(t, e) == Cardinality({i \in 1 .. Len(t) : t[i] = e})

\* C20: each public operation that transmits is one strict half-duplex
\* transaction: from the write to the end of the call exactly one packet, the
\* operation's request, is on the transport; the write is the first event of
\* the call and the only write; nothing is written while the response is
\* awaited or when it arrives, whatever it is; and the call ends with the
\* first frame that is delivered, which is the only one it consumes.
C20_OneRequestOneResponse ==
  /\ [](  trace # <<>>
          => /\ port = <<hdlc_encode(EncodeBuffer(RequestFrame(op)))>>
             /\ trace[1] = "write"
             /\ Count(trace, "write") = 1
             /\ Count(trace, "read") <= 1
             /\ (rx.kind # "None" => (pc # "recv" /\ trace[Len(trace)] = "read")) )
  /\ [][ pc = "recv" => (port' = port /\ op' = op) ]_vars
  /\ [][ rx' # rx
         => \/ (pc = "recv" /\ pc' # "recv" /\ rx.kind = "None" /\ rx'.kind # "None")
            \/ (pc = "idle" /\ rx'.kind = "None") ]_vars

C20_Witness ==
  /\ pc = "panicked" /\ res.op = "read_version"
  /\ rx.kind = "FrameError"
  /\ trace = <<"write", "read">>
  /\ port = <<hdlc_encode(EncodeBuffer(read_version_frame))>>

\* C21: in device_reset the events occur in the order write of the Reset
\* request, pause, read of the response: the events of the call are a prefix
\* of write, sleep, read, no frame has been received before the pause is
\* over, and running is not assigned before the response frame has been
\* received (it keeps its value in the step that writes and in every poll
\* that yields no frame, and is false once the call has returned).
C21_ResetOrder ==
  /\ [](  (op = "device_reset" /\ trace # <<>>)
          => /\ trace \in {<<"write", "sleep">>, <<"write", "sleep", "read">>}
             /\ port = <<hdlc_encode(EncodeBuffer(device_reset_frame))>>
             /\ (rx.kind # "None" => trace = <<"write", "sleep", "read">>) )
  /\ [][ (op' = "device_reset" /\ pc' = "recv") => running' = running ]_vars
  /\ [][ (op = "device_reset" /\ pc = "recv" /\ pc' = "idle")
         => (rx'.kind = "Ok" /\ ~running') ]_vars

C21_Witness ==
  /\ pc = "idle" /\ res.op = "device_reset" /\ res.kind = "Ok"
  /\ rx.kind = "Ok" /\ rx.cmd = "Reset"
  /\ trace = <<"write", "sleep", "read">>
  /\ ~running

\* C22: decoding an inbound de-stuffed frame of fewer than 5 bytes (the empty
\* frame and short frames whose last byte is the checksum of the bytes before
\* it included) is a decode failure returned as an error, never an abort and
\* never a Frame.
C22_ShortFrameIsError ==
  (rx.kind # "None" /\ rx.raw = dev /\ Len(dev) < 5)
    => rx.kind \in ErrorKinds

\* C24: receive_frame validates in the order checksum, opcode, length: a
\* non-empty inbound frame with a wrong checksum yields FrameError whatever
\* its opcode and length byte are, and a frame with a valid checksum, an
\* opcode outside the table and a length byte that does not name its payload
\* size fails on the opcode, not with the FrameError of the length test.
C24_ValidationOrder ==
  /\ (rx.kind # "None" /\ Len(rx.raw) >= 1 /\ ~ChecksumValid(rx.raw))
       => rx.kind = "FrameError"
  /\ (/\ rx.kind # "None" /\ Len(rx.raw) >= 5 /\ ChecksumValid(rx.raw)
      /\ rx.raw[2] \notin TableOpcodes /\ rx.raw[4] # Len(rx.raw) - 5)
       => rx.kind = "Panic"

C24_Witness ==
  /\ rx.kind = "FrameError"
  /\ rx.raw = <<0, 2, 0, 3, 9, 0>>
  /\ ~ChecksumValid(rx.raw)
  /\ rx.raw[2] \notin TableOpcodes
  /\ rx.raw[4] # Len(rx.raw) - 5

\* The opcode and the payload of the request of each public operation, as
\* bytes.
RequestForm(name) ==
  CASE name = "device_reset"       -> [opcode |-> 211, payload |-> <<>>]
    [] name = "get_device_info"    -> [opcode |-> 208, payload |-> <<0>>]
    [] name = "read_version"       -> [opcode |-> 209, payload |-> <<>>]
    [] name = "start_measurement"  -> [opcode |-> 0,   payload |-> <<1, 3>>]
    [] name = "read_measurement"   -> [opcode |-> 3,   payload |-> <<>>]
    [] name = "read_device_status" -> [opcode |-> 210, payload |-> <<1>>]

PublicOps == ReadOps \cup {"start_measurement", "device_reset"}

\* C23: every request frame on the transport is the form of the operation
\* that wrote it: address 0, the operation's opcode, the length of its
\* payload, its payload, and the checksum, and nothing else; device_reset
\* writes Reset (0xD3) with no payload, get_device_info DeviceInformation
\* (0xD0) with [0x00], read_version ReadVersion (0xD1) with no payload,
\* start_measurement StartMeasurement (0x00) with [0x01, 0x03],
\* read_measurement ReadMeasuredValue (0x03) with no payload and
\* read_device_status ReadDeviceStatusRegister (0xD2) with [0x01].
C23_SixRequestForms ==
  (pc # "idle" \/ op # "new") =>
    /\ op \in PublicOps
    /\ \A i \in 1 .. Len(port) :
         /\ hdlc_decode(port[i]).ok
         /\ LET b == hdlc_decode(port[i]).bytes
                q == RequestForm(op)
            IN  /\ Len(b) = Len(q.payload) + 4
                /\ b[1] = 0
                /\ b[2] = q.opcode
                /\ b[3] = Len(q.payload)
                /\ SubSeq(b, 4, Len(b) - 1) = q.payload
                /\ ChecksumValid(b)

C23_Witness ==
  /\ pc = "recv" /\ op = "start_measurement"
  /\ port = <<<<126, 0, 0, 2, 1, 3, 249, 126>>>>

\* The de-stuffed frame d with its state byte replaced by st and its checksum
\* recomputed.
StateTwin(d, st) ==
  LET body == <<d[1], d[2], st>> \o SubSeq(d, 4, Len(d) - 1)
  IN  body \o <<DeviceChecksum(body)>>

\* What the operation name returns on what receive_frame returned.
OpResult(name, r) ==
  CASE name = "get_device_info"    -> get_device_info_result(r)
    [] name = "read_version"       -> read_version_result(r)
    [] name = "start_measurement"  -> start_measurement_result(r)
    [] name = "device_reset"       -> device_reset_result(r)
    [] name = "read_measurement"   -> read_measurement_result(r)
    [] name = "read_device_status" -> read_device_status_result(r)

StateBytes == {0, 1, 67, 255}

\* C25: only start_measurement branches on the state byte of the response.
\* For device_reset, read_version, read_measurement and read_device_status
\* (and get_device_info), the response received with any other state byte and
\* the checksum adjusted is accepted as well and gives the same result, and
\* running is the same; a device_reset answered with a non-zero state returns
\* Ok with running false; start_measurement does tell state 0 from the others.
C25_StateByteIgnored ==
  (pc # "recv" /\ op \in PublicOps /\ rx.kind = "Ok")
    => /\ \A st \in StateBytes :
            LET t == DecodeFrame(StateTwin(rx.raw, st))
            IN  /\ t = [rx EXCEPT !.state = st, !.raw = StateTwin(rx.raw, st)]
                /\ op # "start_measurement"
                     => /\ OpResult(op, t) = Outcome(res.kind, res.val)
                        /\ op = "device_reset"
                             => device_reset_running(OpResult(op, t), running) = running
                /\ op = "start_measurement"
                     => ((OpResult(op, t).kind = "Ok") <=> (st = 0))
       /\ (op = "device_reset" /\ rx.state # 0) => (res.kind = "Ok" /\ ~running)

C25_Witness ==
  /\ pc = "idle" /\ res.op = "device_reset" /\ res.kind = "Ok"
  /\ rx.kind = "Ok" /\ rx.state # 0
  /\ ~running

====
